---- MODULE Spec2Model ----
(***************************************************************************)
(* A model of pmd/preprocessing/timetravel.c, the LD_PRELOAD shim that     *)
(* replaces time(), gettimeofday()/__gettimeofday() and clock_gettime()    *)
(* and reports a fixed "travel" time as the wall-clock seconds.            *)
(*                                                                         *)
(* The C functions are operators on a machine record                       *)
(*   [mem, libc_time, libc_gettimeofday, libc_clock_gettime, trace,        *)
(*    crashed, gret, gmem]                                                 *)
(* that return [s |-> machine after, ret |-> return value].  Pointers are  *)
(* cells <<thread, object, offset>>; NULL is <<>>.  trace is the sequence  *)
(* of the events of the current call: <<"enter", interceptor>>,            *)
(* <<"dlsym", name>>, <<"call", handle, args>> and <<"store", address>>.   *)
(* gret and gmem are what the genuine call returned and the memory as it   *)
(* left it.  A call through a NULL handle ends the process (crashed).      *)
(*                                                                         *)
(* Spec   : one thread, every interceptor call is one action.              *)
(* SpecMT : several threads; the unsynchronised check / assign / call of   *)
(*          the cached handle are separate steps.                          *)
(***************************************************************************)
EXTENDS Integers, Sequences, FiniteSets, TLC

VARIABLES
    travel,               \* static time_t travel
    libc_time,            \* static handle of real_time
    libc_gettimeofday,    \* static handle of real_gettimeofday
    libc_clock_gettime,   \* static handle of clock_gettime
    mem,                  \* the callers' output objects and time()'s local res
    now,                  \* what the genuine wall clock reads
    avail,                \* the symbols the next library in load order defines
    crashed,              \* the process died on a call through a NULL handle
    call,                 \* per thread: the call in progress or just completed
    everCalled            \* history: handle families whose interceptor was entered

vars == <<travel, libc_time, libc_gettimeofday, libc_clock_gettime, mem, now,
          avail, crashed, call, everCalled>>

----------------------------------------------------------------------------
(* Bounds and inputs *)

NThreads == 2      \* threads of the host program (SpecMT)
MaxTicks == 1      \* how far the genuine clock advances
StartNow == 1762300800   \* genuine clock at process start (after the travel time)

Threads == 1..NThreads
Main == {1}        \* the thread of the single-threaded specification

TravelInit == 1661140800

NULL == <<>>

CLOCK_REALTIME == 0
\* 1 is CLOCK_MONOTONIC, 77 is no clock id of the system
ClockIds == {CLOCK_REALTIME, 1, 77}
ValidClocks == {CLOCK_REALTIME, 1}

tv_sec == 0        \* offsetof(struct timeval, tv_sec) = offsetof(struct timespec, tv_sec)
tv_sub == tv_sec + 1   \* the cell of tv_usec / tv_nsec, the field after tv_sec

Usecs == {0, 999999}
Nsecs == {0, 999999999}
TzValues == {60}
\* what the genuine functions return: 0 on success, -1 on failure
GenuineRets == {0, -1}
Failure == CHOOSE r \in GenuineRets : r # 0

Names == {"time", "gettimeofday", "clock_gettime"}
Interceptors == {"time", "gettimeofday", "__gettimeofday", "clock_gettime"}

\* the handle family (= the symbol looked up) of each interceptor
Family(fn) == IF fn = "__gettimeofday" THEN "gettimeofday" ELSE fn

Cell(t, obj, off) == <<t, obj, off>>
Cells == { Cell(t, o[1], o[2]) : t \in Threads,
           o \in {<<"t", 0>>, <<"res", 0>>, <<"tv", 0>>, <<"tv", 1>>,
                  <<"ts", 0>>, <<"ts", 1>>, <<"tz", 0>>} }
OwnCells(t) == { c \in Cells : c[1] = t }

\* &p->field : the address of the field at offset off of the object at p
FieldAddr(p, off) ==
    IF p = NULL
    THEN IF off = 0 THEN NULL ELSE <<0, "wild", off>>
    ELSE <<p[1], p[2], p[3] + off>>

\* the value of the 32-bit int obtained from a 64-bit time_t (truncation)
ToInt(v) ==
    LET lo == v % 65536
        hi == (v \div 65536) % 65536
    IN  (IF hi >= 32768 THEN hi - 65536 ELSE hi) * 65536 + lo

\* the 64-bit time_t obtained from a 32-bit int: sign extension, which keeps
\* the value (negative results stay negative)
ToTimeT(i) == i

----------------------------------------------------------------------------
(* The machine record of the state, and what the environment decides *)

Machine ==
    [mem |-> mem, libc_time |-> libc_time,
     libc_gettimeofday |-> libc_gettimeofday,
     libc_clock_gettime |-> libc_clock_gettime,
     trace |-> <<>>, crashed |-> FALSE, gret |-> 0, gmem |-> mem]

\* rc: the genuine call's verdict; sub: its sub-second reading; tz: its timezone value
EnvsTime == [rc : GenuineRets, sub : {0}, tz : TzValues]
EnvsTv == [rc : GenuineRets, sub : Usecs, tz : TzValues]
EnvsTs == [rc : GenuineRets, sub : Nsecs, tz : TzValues]

Log(s, e) == [s EXCEPT !.trace = Append(@, e)]

----------------------------------------------------------------------------
(* The environment: the dynamic linker and the genuine libc functions *)

\* dlsym(RTLD_NEXT, name): the next definition of name after the shim's own
Dlsym(name) == IF name \in avail THEN <<"libc", name>> ELSE NULL

\* the seconds a valid clock reads
ClockReading(clk) == IF clk = CLOCK_REALTIME THEN now ELSE now - StartNow

Genuine_time(s, x, env) ==
    IF env.rc = 0
    THEN [s |-> IF x = NULL THEN s ELSE [s EXCEPT !.mem[x] = now], ret |-> now]
    ELSE [s |-> s, ret |-> env.rc]

Genuine_gettimeofday(s, x, y, env) ==
    IF env.rc = 0
    THEN LET s1 == IF x = NULL THEN s
                   ELSE [s EXCEPT !.mem[FieldAddr(x, tv_sec)] = now,
                                  !.mem[FieldAddr(x, tv_sub)] = env.sub]
             s2 == IF y = NULL THEN s1 ELSE [s1 EXCEPT !.mem[y] = env.tz]
         IN  [s |-> s2, ret |-> 0]
    ELSE [s |-> s, ret |-> env.rc]

Genuine_clock_gettime(s, x, y, env) ==
    IF x \notin ValidClocks THEN [s |-> s, ret |-> Failure]
    ELSE IF env.rc # 0 THEN [s |-> s, ret |-> env.rc]
    ELSE [s |-> IF y = NULL THEN s
                ELSE [s EXCEPT !.mem[FieldAddr(y, tv_sec)] = ClockReading(x),
                               !.mem[FieldAddr(y, tv_sub)] = env.sub],
          ret |-> 0]

\* what the genuine call returned and left in memory, kept for the claims
Snap(r) == [r EXCEPT !.s.gret = r.ret, !.s.gmem = r.s.mem]

\* a call through the function pointer h
Invoke(s, h, args, env) ==
    LET s1 == Log(s, <<"call", h, args>>)
    IN  IF h = <<"libc", "time">>
        THEN Snap(Genuine_time(s1, args[1], env))
        ELSE IF h = <<"libc", "gettimeofday">>
        THEN Snap(Genuine_gettimeofday(s1, args[1], args[2], env))
        ELSE IF h = <<"libc", "clock_gettime">>
        THEN Snap(Genuine_clock_gettime(s1, args[1], args[2], env))
        ELSE [s |-> [s1 EXCEPT !.crashed = TRUE], ret |-> 0]

----------------------------------------------------------------------------
(* timetravel.c *)

\* variant: the null test inverted
set_travel_inverted(s, seconds) ==
    IF seconds # NULL
    THEN s
    ELSE Log(s, <<"store", seconds>>)

\* variant: no null test
set_travel_unchecked(s, seconds) ==
    Log([s EXCEPT !.mem[seconds] = travel], <<"store", seconds>>)

set_travel(s, seconds) ==
    IF seconds = NULL
    THEN s
    ELSE Log([s EXCEPT !.mem[seconds] = travel], <<"store", seconds>>)

\* variant: the lookup repeated on every call
real_time_resolve_always(s) ==
    Log([s EXCEPT !.libc_time = Dlsym("time")], <<"dlsym", "time">>)

\* real_time, line 42-43: the lazy lookup
real_time_resolve(s) ==
    IF s.libc_time = NULL
    THEN Log([s EXCEPT !.libc_time = Dlsym("time")], <<"dlsym", "time">>)
    ELSE s

\* variant: an unresolved handle is reported as a failed call
real_time_invoke_guarded(s, h, x, env) ==
    IF h = NULL THEN [s |-> s, ret |-> Failure] ELSE Invoke(s, h, <<x>>, env)

\* real_time, line 44: the call through the handle value h
real_time_invoke(s, h, x, env) == Invoke(s, h, <<x>>, env)

real_time(s, x, env) ==
    LET s1 == real_time_resolve(s)
    IN  real_time_invoke(s1, s1.libc_time, x, env)

\* time, lines 51-54, after real_time returned r in the frame of thread t
time_post(r, t, x) ==
    IF r.s.crashed THEN r
    ELSE LET res == Cell(t, "res", 0)
             s1 == [r.s EXCEPT !.mem[res] = r.ret]
             s2 == set_travel(s1, x)
             s3 == set_travel(s2, res)
         IN  [s |-> s3, ret |-> s3.mem[res]]

time(s, t, x, env) ==
    time_post(real_time(Log(s, <<"enter", "time">>), x, env), t, x)

\* variant: the looked-up reference is not stored in the static
real_gettimeofday_resolve_unstored(s) ==
    IF s.libc_gettimeofday = NULL
    THEN Log(s, <<"dlsym", "gettimeofday">>)
    ELSE s

real_gettimeofday_resolve(s) ==
    IF s.libc_gettimeofday = NULL
    THEN Log([s EXCEPT !.libc_gettimeofday = Dlsym("gettimeofday")],
             <<"dlsym", "gettimeofday">>)
    ELSE s

\* real_gettimeofday, line 64: the int result is returned as a time_t
real_gettimeofday_invoke(s, h, x, y, env) ==
    LET r == Invoke(s, h, <<x, y>>, env)
    IN  [r EXCEPT !.ret = ToTimeT(r.ret)]

real_gettimeofday(s, x, y, env) ==
    LET s1 == real_gettimeofday_resolve(s)
    IN  real_gettimeofday_invoke(s1, s1.libc_gettimeofday, x, y, env)

\* variant: the result of the genuine call is not tested
gettimeofday_post_untested(r, x) ==
    IF r.s.crashed THEN r
    ELSE [s |-> set_travel(r.s, FieldAddr(x, tv_sec)), ret |-> 0]

\* variant: the sub-second field is cleared as well
gettimeofday_post_whole(r, x) ==
    IF r.s.crashed THEN r
    ELSE LET res == ToInt(r.ret)
         IN  IF res # 0
             THEN [s |-> r.s, ret |-> res]
             ELSE LET s1 == set_travel(r.s, FieldAddr(x, tv_sec))
                  IN  [s |-> IF x = NULL THEN s1
                             ELSE [s1 EXCEPT !.mem[FieldAddr(x, tv_sub)] = 0],
                       ret |-> 0]

\* __gettimeofday, lines 71-75, after real_gettimeofday returned r
gettimeofday_post(r, x) ==
    IF r.s.crashed THEN r
    ELSE LET res == ToInt(r.ret)
         IN  IF res # 0
             THEN [s |-> r.s, ret |-> res]
             ELSE [s |-> set_travel(r.s, FieldAddr(x, tv_sec)), ret |-> 0]

__gettimeofday(s, x, y, env) ==
    gettimeofday_post(
        real_gettimeofday(Log(s, <<"enter", "__gettimeofday">>), x, y, env), x)

gettimeofday(s, x, y, env) ==
    __gettimeofday(Log(s, <<"enter", "gettimeofday">>), x, y, env)

clock_gettime_resolve(s) ==
    IF s.libc_clock_gettime = NULL
    THEN Log([s EXCEPT !.libc_clock_gettime = Dlsym("clock_gettime")],
             <<"dlsym", "clock_gettime">>)
    ELSE s

\* variant: the clock id is not tested
clock_gettime_rest_anyclock(s, h, x, y, env) ==
    LET r == Invoke(s, h, <<x, y>>, env)
    IN  IF r.s.crashed THEN r
        ELSE IF r.ret # 0
             THEN [s |-> r.s, ret |-> r.ret]
             ELSE [s |-> set_travel(r.s, FieldAddr(y, tv_sec)), ret |-> 0]

\* variant: the genuine call is made for the wall clock only
clock_gettime_rest_wallonly(s, h, x, y, env) ==
    IF CLOCK_REALTIME # x
    THEN [s |-> s, ret |-> Failure]
    ELSE LET r == Invoke(s, h, <<x, y>>, env)
         IN  IF r.s.crashed THEN r
             ELSE IF r.ret # 0
                  THEN [s |-> r.s, ret |-> r.ret]
                  ELSE [s |-> set_travel(r.s, FieldAddr(y, tv_sec)), ret |-> 0]

\* clock_gettime, lines 90-94: the call through the handle value h and the rest
clock_gettime_rest(s, h, x, y, env) ==
    LET r == Invoke(s, h, <<x, y>>, env)
    IN  IF r.s.crashed THEN r
        ELSE LET res == r.ret
             IN  IF res # 0 \/ CLOCK_REALTIME # x
                 THEN [s |-> r.s, ret |-> res]
                 ELSE [s |-> set_travel(r.s, FieldAddr(y, tv_sec)), ret |-> 0]

clock_gettime(s, x, y, env) ==
    LET s1 == clock_gettime_resolve(Log(s, <<"enter", "clock_gettime">>))
    IN  clock_gettime_rest(s1, s1.libc_clock_gettime, x, y, env)

----------------------------------------------------------------------------
(* The single-threaded program: every interceptor call is one action *)

IdleCall(t) ==
    [pc |-> "idle", fn |-> "none", args |-> <<>>, ret |-> 0, gret |-> 0,
     gmem |-> [c \in OwnCells(t) |-> 0], trace |-> <<>>, reg |-> NULL]

Init ==
    /\ travel = TravelInit
    /\ libc_time = NULL
    /\ libc_gettimeofday = NULL
    /\ libc_clock_gettime = NULL
    /\ mem = [c \in Cells |-> 0]
    /\ now = StartNow
    /\ avail \in SUBSET Names
    /\ crashed = FALSE
    /\ call = [t \in Threads |-> IdleCall(t)]
    /\ everCalled = {}

\* the dlsym calls of a trace for symbol n
LookupsIn(trace, n) ==
    Cardinality({ i \in 1..Len(trace) : trace[i] = <<"dlsym", n>> })

\* the state after thread t's call fn(args) ran to r
Commit(t, fn, args, r) ==
    /\ mem' = r.s.mem
    /\ libc_time' = r.s.libc_time
    /\ libc_gettimeofday' = r.s.libc_gettimeofday
    /\ libc_clock_gettime' = r.s.libc_clock_gettime
    /\ crashed' = r.s.crashed
    /\ call' = [call EXCEPT ![t] =
                  [pc |-> IF r.s.crashed THEN "crashed" ELSE "done",
                   fn |-> fn, args |-> args, ret |-> r.ret, gret |-> r.s.gret,
                   gmem |-> [c \in OwnCells(t) |-> r.s.gmem[c]],
                   trace |-> r.s.trace, reg |-> NULL]]
    /\ everCalled' = everCalled \cup {Family(fn)}
    /\ UNCHANGED <<travel, now, avail>>

Time ==
    \E t \in Main : \E x \in {NULL, Cell(t, "t", 0)}, env \in EnvsTime :
        /\ ~crashed
        /\ Commit(t, "time", <<x>>, time(Machine, t, x, env))

Gettimeofday ==
    \E t \in Main : \E x \in {NULL, Cell(t, "tv", 0)}, y \in {NULL, Cell(t, "tz", 0)},
       env \in EnvsTv :
        /\ ~crashed
        /\ Commit(t, "gettimeofday", <<x, y>>, gettimeofday(Machine, x, y, env))

UGettimeofday ==
    \E t \in Main : \E x \in {NULL, Cell(t, "tv", 0)}, y \in {NULL, Cell(t, "tz", 0)},
       env \in EnvsTv :
        /\ ~crashed
        /\ Commit(t, "__gettimeofday", <<x, y>>, __gettimeofday(Machine, x, y, env))

ClockGettime ==
    \E t \in Main : \E x \in ClockIds, y \in {NULL, Cell(t, "ts", 0)}, env \in EnvsTs :
        /\ ~crashed
        /\ Commit(t, "clock_gettime", <<x, y>>, clock_gettime(Machine, x, y, env))

\* genuine time passes
Tick ==
    /\ ~crashed
    /\ now < StartNow + MaxTicks
    /\ now' = now + 1
    /\ UNCHANGED <<travel, libc_time, libc_gettimeofday, libc_clock_gettime, mem,
                   avail, crashed, call, everCalled>>

Next == Time \/ Gettimeofday \/ UGettimeofday \/ ClockGettime \/ Tick

Spec == Init /\ [][Next]_vars

----------------------------------------------------------------------------
(* The multi-threaded program.  A call is three steps: the unsynchronised  *)
(* read of the cached handle (lines 42, 62, 88), the lookup and assignment *)
(* by a thread that read NULL (lines 43, 63, 89), and the call through the *)
(* handle with the rest of the interceptor (lines 44, 64, 90 onwards).     *)
(* Each thread passes its own output objects.                              *)

HandleOf(s, fam) ==
    CASE fam = "time" -> s.libc_time
      [] fam = "gettimeofday" -> s.libc_gettimeofday
      [] fam = "clock_gettime" -> s.libc_clock_gettime

\* the calls the threads make: each thread passes fresh, zeroed output objects
\* of its own, no timezone, and the wall clock's id
ArgsOf(t, fn) ==
    CASE fn = "time" -> { <<Cell(t, "t", 0)>> }
      [] fn \in {"gettimeofday", "__gettimeofday"} -> { <<Cell(t, "tv", 0), NULL>> }
      [] fn = "clock_gettime" -> { <<CLOCK_REALTIME, Cell(t, "ts", 0)>> }

EnvsOf(fn) ==
    CASE fn = "time" -> EnvsTime
      [] fn \in {"gettimeofday", "__gettimeofday"} -> { e \in EnvsTv : e.sub = 0 }
      [] fn = "clock_gettime" -> { e \in EnvsTs : e.sub = 0 }

\* the entries logged on the way to the handle check of fn
Entered(fn) ==
    IF fn = "gettimeofday"
    THEN <<(<<"enter", "gettimeofday">>), (<<"enter", "__gettimeofday">>)>>
    ELSE << <<"enter", fn>> >>

\* lines 43, 63, 89 executed by a thread that read the handle as NULL
AssignOf(s, fam) ==
    CASE fam = "time" -> real_time_resolve([s EXCEPT !.libc_time = NULL])
      [] fam = "gettimeofday" ->
            real_gettimeofday_resolve([s EXCEPT !.libc_gettimeofday = NULL])
      [] fam = "clock_gettime" ->
            clock_gettime_resolve([s EXCEPT !.libc_clock_gettime = NULL])

\* the call through handle value h and the rest of interceptor fn
RestOf(s, t, fn, args, h, env) ==
    CASE fn = "time" -> time_post(real_time_invoke(s, h, args[1], env), t, args[1])
      [] fn \in {"gettimeofday", "__gettimeofday"} ->
            gettimeofday_post(
                real_gettimeofday_invoke(s, h, args[1], args[2], env), args[1])
      [] fn = "clock_gettime" -> clock_gettime_rest(s, h, args[1], args[2], env)

\* thread t enters fn(args) and reads the cached handle
MTCheck(t) ==
    /\ ~crashed
    /\ call[t].pc \in {"idle", "done"}
    /\ \E fn \in Interceptors : \E args \in ArgsOf(t, fn) :
         LET h == HandleOf(Machine, Family(fn))
         IN  /\ call' = [call EXCEPT ![t] =
                    [IdleCall(t) EXCEPT !.pc = IF h = NULL THEN "assign" ELSE "invoke",
                                        !.fn = fn, !.args = args,
                                        !.trace = Entered(fn), !.reg = h]]
             /\ everCalled' = everCalled \cup {Family(fn)}
    /\ mem' = [c \in Cells |-> IF c \in OwnCells(t) THEN 0 ELSE mem[c]]
    /\ UNCHANGED <<travel, libc_time, libc_gettimeofday, libc_clock_gettime,
                   now, avail, crashed>>

\* thread t, having read NULL, looks the symbol up and assigns the handle
MTAssign(t) ==
    /\ ~crashed
    /\ call[t].pc = "assign"
    /\ LET fam == Family(call[t].fn)
           s == AssignOf([Machine EXCEPT !.trace = call[t].trace], fam)
       IN  /\ libc_time' = s.libc_time
           /\ libc_gettimeofday' = s.libc_gettimeofday
           /\ libc_clock_gettime' = s.libc_clock_gettime
           /\ call' = [call EXCEPT ![t].pc = "invoke", ![t].trace = s.trace,
                                    ![t].reg = HandleOf(s, fam)]
    /\ UNCHANGED <<travel, mem, now, avail, crashed, everCalled>>

\* thread t calls through the handle, either the value it holds in a register
\* or the value it reloads from the static, and finishes the interceptor
MTInvoke(t) ==
    /\ ~crashed
    /\ call[t].pc = "invoke"
    /\ LET fn == call[t].fn
           s == [Machine EXCEPT !.trace = call[t].trace]
       IN  \E h \in {call[t].reg, HandleOf(s, Family(fn))} : \E env \in EnvsOf(fn) :
               Commit(t, fn, call[t].args, RestOf(s, t, fn, call[t].args, h, env))

NextMT == \E t \in Threads : MTCheck(t) \/ MTAssign(t) \/ MTInvoke(t)

\* a correctly deployed shim: the next library defines every symbol
InitMT == Init /\ avail = Names

SpecMT == InitMT /\ [][NextMT]_vars

----------------------------------------------------------------------------
(* What the claims speak of *)

Done(t) == call[t].pc = "done"
GtodFns == {"gettimeofday", "__gettimeofday"}
CallsIn(trace) == { i \in 1..Len(trace) : trace[i][1] = "call" }
StoresIn(trace) == { i \in 1..Len(trace) : trace[i][1] = "store" }
EntersIn(trace) == { i \in 1..Len(trace) : trace[i][1] = "enter" }
GenuineRef(fn) == <<"libc", Family(fn)>>
\* the shim left every output object of thread t as the genuine call left it,
\* except the cells in but
Untouched(t, but) == \A c \in OwnCells(t) \ but : mem[c] = call[t].gmem[c]
ResCell(t) == Cell(t, "res", 0)

\* C1: every call whose genuine call succeeds reports the travel constant
\* 1661140800 as its seconds (time()'s return value and non-null pointee, tv_sec
\* of the timeval, tv_sec of the timespec for CLOCK_REALTIME), whatever the
\* genuine clock reads, and no call changes the travel constant.
C1_Determinism ==
    /\ travel = TravelInit
    /\ \A t \in Threads : Done(t) =>
          LET c == call[t]
          IN  /\ (c.fn = "time" /\ c.gret # Failure) =>
                    /\ c.ret = TravelInit
                    /\ c.args[1] # NULL => mem[c.args[1]] = TravelInit
              /\ (c.fn \in GtodFns /\ c.gret = 0) =>
                    /\ c.ret = 0
                    /\ c.args[1] # NULL => mem[FieldAddr(c.args[1], tv_sec)] = TravelInit
              /\ (c.fn = "clock_gettime" /\ c.gret = 0 /\ c.args[1] = CLOCK_REALTIME) =>
                    /\ c.ret = 0
                    /\ c.args[2] # NULL => mem[FieldAddr(c.args[2], tv_sec)] = TravelInit

\* a successful time(&t) made after the genuine clock advanced
C1_Witness ==
    \E t \in Threads :
        /\ Done(t) /\ call[t].fn = "time" /\ call[t].args[1] # NULL
        /\ call[t].gret = now /\ now > StartNow
        /\ call[t].gmem[call[t].args[1]] = now
        /\ call[t].ret = TravelInit

\* C2: when the genuine gettimeofday or clock_gettime returns non-zero, the
\* interceptor returns that same result and stores nothing: the output objects
\* hold what the genuine call left in them.
C2_FailureTransparent ==
    \A t \in Threads :
        (Done(t) /\ call[t].fn \in GtodFns \cup {"clock_gettime"} /\ call[t].gret # 0) =>
            /\ call[t].ret = call[t].gret
            /\ StoresIn(call[t].trace) = {}
            /\ Untouched(t, {})

\* a failed genuine clock_gettime(CLOCK_REALTIME, &ts) and a failed gettimeofday
C2_Witness ==
    \E t \in Threads :
        /\ Done(t) /\ call[t].gret # 0 /\ call[t].ret # 0
        /\ call[t].fn = "clock_gettime"
        /\ call[t].args[1] = CLOCK_REALTIME /\ call[t].args[2] # NULL
        /\ "gettimeofday" \in everCalled

\* C3: when the genuine time() returns the failure value (time_t)-1, time(x)
\* returns that failure value and leaves *x as the genuine call left it.
C3_TimeFailurePropagated ==
    \A t \in Threads :
        (Done(t) /\ call[t].fn = "time" /\ call[t].gret = Failure) =>
            /\ call[t].ret = call[t].gret
            /\ call[t].args[1] # NULL =>
                   mem[call[t].args[1]] = call[t].gmem[call[t].args[1]]

\* C4: for a clock id other than CLOCK_REALTIME, clock_gettime returns the
\* genuine result and leaves the whole record as the genuine call produced it;
\* it stores the travel constant only for CLOCK_REALTIME after a genuine 0.
C4_ClockSelectivity ==
    \A t \in Threads :
        (Done(t) /\ call[t].fn = "clock_gettime") =>
            /\ call[t].args[1] # CLOCK_REALTIME =>
                  /\ call[t].ret = call[t].gret
                  /\ StoresIn(call[t].trace) = {}
                  /\ Untouched(t, {})
            /\ StoresIn(call[t].trace) # {} =>
                  /\ call[t].args[1] = CLOCK_REALTIME
                  /\ call[t].gret = 0
            /\ \A i \in StoresIn(call[t].trace) :
                  call[t].trace[i][2] = FieldAddr(call[t].args[2], tv_sec)

\* a successful monotonic query made after the clock advanced
C4_Witness ==
    \E t \in Threads :
        /\ Done(t) /\ call[t].fn = "clock_gettime"
        /\ call[t].args[1] \in ValidClocks \ {CLOCK_REALTIME}
        /\ call[t].args[2] # NULL /\ call[t].gret = 0
        /\ mem[FieldAddr(call[t].args[2], tv_sec)] = now - StartNow
        /\ now > StartNow

\* C5: a successful gettimeofday/__gettimeofday or clock_gettime(CLOCK_REALTIME)
\* changes only tv_sec: tv_usec / tv_nsec hold what the genuine call wrote, and
\* the timezone object (like every other object) is never written by the shim.
C5_OnlySeconds ==
    \A t \in Threads :
        LET c == call[t]
        IN  /\ (Done(t) /\ c.fn \in GtodFns /\ c.gret = 0) =>
                  /\ Untouched(t, {FieldAddr(c.args[1], tv_sec)})
                  /\ c.args[1] # NULL =>
                        /\ mem[FieldAddr(c.args[1], tv_sub)] \in Usecs
                        /\ mem[FieldAddr(c.args[1], tv_sub)] =
                               c.gmem[FieldAddr(c.args[1], tv_sub)]
            /\ (Done(t) /\ c.fn = "clock_gettime" /\ c.gret = 0
                   /\ c.args[1] = CLOCK_REALTIME) =>
                  /\ Untouched(t, {FieldAddr(c.args[2], tv_sec)})
                  /\ c.args[2] # NULL =>
                        /\ mem[FieldAddr(c.args[2], tv_sub)] \in Nsecs
                        /\ mem[FieldAddr(c.args[2], tv_sub)] =
                               c.gmem[FieldAddr(c.args[2], tv_sub)]
            /\ Done(t) => mem[Cell(t, "tz", 0)] = c.gmem[Cell(t, "tz", 0)]

\* a successful gettimeofday(&tv, &tz) whose genuine call wrote 999999 us and a
\* timezone
C5_Witness ==
    \E t \in Threads :
        /\ Done(t) /\ call[t].fn = "gettimeofday" /\ call[t].gret = 0
        /\ call[t].args = <<Cell(t, "tv", 0), Cell(t, "tz", 0)>>
        /\ mem[Cell(t, "tv", 0)] = TravelInit
        /\ mem[Cell(t, "tv", 1)] = 999999
        /\ mem[Cell(t, "tz", 0)] \in TzValues

\* C6: no interceptor stores through a null pointer: time(NULL) stores only to
\* its local and returns the travel constant; gettimeofday(NULL, y) and
\* clock_gettime(CLOCK_REALTIME, NULL), after a genuine success, store nothing
\* and return 0.
C6_NullSafe ==
    \A t \in Threads :
        LET c == call[t]
        IN  /\ \A i \in StoresIn(c.trace) : c.trace[i][2] \in OwnCells(t)
            /\ (Done(t) /\ c.fn = "time" /\ c.args[1] = NULL) =>
                  /\ c.ret = TravelInit
                  /\ \A i \in StoresIn(c.trace) : c.trace[i][2] = ResCell(t)
                  /\ Untouched(t, {ResCell(t)})
            /\ (Done(t) /\ c.fn \in GtodFns /\ c.args[1] = NULL /\ c.gret = 0) =>
                  /\ c.ret = 0
                  /\ StoresIn(c.trace) = {}
                  /\ Untouched(t, {})
            /\ (Done(t) /\ c.fn = "clock_gettime" /\ c.args[1] = CLOCK_REALTIME
                   /\ c.args[2] = NULL /\ c.gret = 0) =>
                  /\ c.ret = 0
                  /\ StoresIn(c.trace) = {}
                  /\ Untouched(t, {})

\* a successful gettimeofday(NULL, &tz) after a time(NULL)
C6_Witness ==
    \E t \in Threads :
        /\ Done(t) /\ call[t].fn \in GtodFns /\ call[t].gret = 0
        /\ call[t].args = <<NULL, Cell(t, "tz", 0)>>
        /\ call[t].ret = 0
        /\ mem[ResCell(t)] = TravelInit /\ mem[Cell(t, "t", 0)] = 0

\* C7 as stated: a missing genuine symbol fails the process at load time, so no
\* interceptor call ever invokes an unresolved (NULL) handle.
C7_FailsAtLoadTime ==
    /\ ~crashed
    /\ \A t \in Threads : \A i \in CallsIn(call[t].trace) : call[t].trace[i][2] # NULL

\* C7 amended: nothing is looked up and nothing fails at load time; a missing
\* symbol fails the process exactly on the first call of the interceptor that
\* needs it, which looks the symbol up, gets NULL and calls through it; the calls
\* made before it, to interceptors whose symbols exist, completed through the
\* genuine reference.
C7_FailsOnFirstCall ==
    /\ everCalled = {} =>
          /\ ~crashed
          /\ libc_time = NULL /\ libc_gettimeofday = NULL /\ libc_clock_gettime = NULL
    /\ crashed <=> (\E n \in everCalled : n \notin avail)
    /\ \A t \in Threads :
          LET c == call[t]
          IN  /\ c.pc = "crashed" =>
                    /\ crashed
                    /\ Family(c.fn) \notin avail
                    /\ c.trace = Entered(c.fn) \o
                          << <<"dlsym", Family(c.fn)>>, <<"call", NULL, c.args>> >>
              /\ Done(t) =>
                    /\ Family(c.fn) \in avail
                    /\ \A i \in CallsIn(c.trace) : c.trace[i][2] = GenuineRef(c.fn)

\* clock_gettime is missing: the process dies in its first clock_gettime call,
\* after calls of time() already completed
C7_Witness ==
    /\ crashed
    /\ avail = Names \ {"clock_gettime"}
    /\ everCalled = {"time", "clock_gettime"}
    /\ libc_time = <<"libc", "time">>
    /\ \E t \in Threads : call[t].pc = "crashed" /\ call[t].fn = "clock_gettime"

\* C8: in a single-threaded run where the lookups succeed, a handle is NULL
\* until the first call of its own interceptor (gettimeofday and
\* __gettimeofday sharing one) and is the genuine reference ever after; a call
\* looks its own symbol up exactly once if it is the first call of its
\* interceptor and not at all otherwise, never looks up another symbol, and
\* leaves the other handles and an already resolved handle unchanged.
Handles == [n \in Names |-> HandleOf(Machine, n)]

C8_HandleState ==
    avail = Names =>
        \A n \in Names : Handles[n] = IF n \in everCalled THEN <<"libc", n>> ELSE NULL

C8_CallStep ==
    (avail = Names /\ now' = now /\ vars' # vars) =>
        \A t \in Main :
            LET c == call'[t]
                fam == Family(c.fn)
            IN  /\ everCalled' = everCalled \cup {fam}
                /\ LookupsIn(c.trace, fam) = IF fam \in everCalled THEN 0 ELSE 1
                /\ \A n \in Names \ {fam} :
                      /\ LookupsIn(c.trace, n) = 0
                      /\ Handles'[n] = Handles[n]
                /\ Handles[fam] # NULL => Handles'[fam] = Handles[fam]

C8_LazyOnce == []C8_HandleState /\ [][C8_CallStep]_vars

\* time() was called more than once, the last call without a lookup, and the
\* other two handles are still NULL
C8_Witness ==
    /\ avail = Names
    /\ everCalled = {"time"}
    /\ libc_time = <<"libc", "time">>
    /\ libc_gettimeofday = NULL /\ libc_clock_gettime = NULL
    /\ \E t \in Main : Done(t) /\ call[t].fn = "time"
                           /\ LookupsIn(call[t].trace, "time") = 0

\* C9: when threads race on the first call of an interceptor, every handle only
\* ever holds NULL or the genuine reference, every thread calls through the
\* genuine reference (never NULL), no thread crashes, and every thread whose
\* genuine call succeeds gets the travel constant as its seconds; a call makes
\* at most one lookup, of its own symbol, so all the race can add is a repeated
\* lookup.
C9_RaceHarmless ==
    /\ ~crashed
    /\ \A n \in Names : HandleOf(Machine, n) \in {NULL, <<"libc", n>>}
    /\ \A t \in Threads :
          LET c == call[t]
          IN  /\ c.pc # "crashed"
              /\ c.pc = "invoke" => c.reg = GenuineRef(c.fn)
              /\ \A i \in CallsIn(c.trace) : c.trace[i][2] = GenuineRef(c.fn)
              /\ \A n \in Names :
                    LookupsIn(c.trace, n) <= (IF n = Family(c.fn) THEN 1 ELSE 0)
              /\ Done(t) =>
                    /\ Cardinality(CallsIn(c.trace)) = 1
                    /\ c.fn = "time" => c.ret = TravelInit /\ mem[c.args[1]] = TravelInit
                    /\ (c.fn \in GtodFns /\ c.gret = 0) =>
                          c.ret = 0 /\ mem[FieldAddr(c.args[1], tv_sec)] = TravelInit
                    /\ (c.fn = "clock_gettime" /\ c.gret = 0) =>
                          c.ret = 0 /\ mem[FieldAddr(c.args[2], tv_sec)] = TravelInit

\* two threads both looked "time" up in their first, concurrent time() calls and
\* both got the travel constant
C9_Witness ==
    \E t1, t2 \in Threads :
        /\ t1 # t2
        /\ Done(t1) /\ Done(t2)
        /\ call[t1].fn = "time" /\ call[t2].fn = "time"
        /\ LookupsIn(call[t1].trace, "time") = 1
        /\ LookupsIn(call[t2].trace, "time") = 1
        /\ call[t1].ret = TravelInit /\ call[t2].ret = TravelInit

\* C10: every interceptor call that returns has invoked the genuine function
\* exactly once, through the genuine reference and with the caller's arguments,
\* before any store of the travel constant, and entered no interceptor after
\* that call (gettimeofday enters __gettimeofday before it); gettimeofday and
\* __gettimeofday give the same return value, memory and handles for the same
\* arguments and genuine result; clock_gettime makes the genuine call for every
\* clock id.
C10_CallThrough ==
    /\ \A t \in Threads : Done(t) =>
          LET c == call[t]
          IN  /\ Cardinality(CallsIn(c.trace)) = 1
              /\ \A i \in CallsIn(c.trace) :
                    /\ c.trace[i] = <<"call", GenuineRef(c.fn), c.args>>
                    /\ \A j \in StoresIn(c.trace) : j > i
                    /\ \A j \in EntersIn(c.trace) : j < i
              /\ SubSeq(c.trace, 1, Len(Entered(c.fn))) = Entered(c.fn)
              /\ Cardinality(EntersIn(c.trace)) = Len(Entered(c.fn))
    /\ ~crashed =>
          \A t \in Main : \A x \in {NULL, Cell(t, "tv", 0)} :
          \A y \in {NULL, Cell(t, "tz", 0)} : \A env \in EnvsTv :
              LET a == gettimeofday(Machine, x, y, env)
                  b == __gettimeofday(Machine, x, y, env)
              IN  /\ a.ret = b.ret
                  /\ a.s.mem = b.s.mem
                  /\ a.s.crashed = b.s.crashed
                  /\ a.s.libc_gettimeofday = b.s.libc_gettimeofday
                  /\ a.s.trace = << <<"enter", "gettimeofday">> >> \o b.s.trace

\* a completed clock_gettime of the monotonic clock that made its genuine call,
\* after a gettimeofday
C10_Witness ==
    /\ "gettimeofday" \in everCalled
    /\ \E t \in Threads :
          /\ Done(t) /\ call[t].fn = "clock_gettime"
          /\ call[t].args[1] # CLOCK_REALTIME
          /\ \E i \in CallsIn(call[t].trace) :
                call[t].trace[i] = <<"call", <<"libc", "clock_gettime">>, call[t].args>>

====
